---- MODULE Spec2Model ----
(***************************************************************************)
(* Model of the elevator dispatcher of src/services/ElevatorManager.ts:    *)
(* the Elevator class (one cabin's state machine) and the ElevatorManager  *)
(* class (shared pickup pool, step(), configuration methods).              *)
(*                                                                         *)
(* Every public method is one action.  A method that throws leaves the     *)
(* object in the state it had at the throw (JavaScript has no rollback);   *)
(* the variable thrown records the error of the last call and assigned the *)
(* assignments made by the assignment phase of the last call, when it was  *)
(* step(), in the order they were made; absorbed likewise records the pool *)
(* tasks the first loop of that step() removed, and returned the value the *)
(* last call returned (<<v>> for a value v, <<>> for no value).             *)
(***************************************************************************)
EXTENDS Integers, Sequences, FiniteSets

VARIABLES elevators, pickupTasks, elevatorCount, floorLimits, soleElevatorMode,
          thrown, assigned, absorbed, returned

vars == <<elevators, pickupTasks, elevatorCount, floorLimits, soleElevatorMode,
          thrown, assigned, absorbed, returned>>

\* ------------------------------------------------------------------ bounds

\* Floor arguments of pickup / selectFloor / setElevator range over 0..MaxFloor.
MaxFloor == 2
\* setElevatorCount and the constructor take counts in 0..MaxElevators.
MaxElevators == 1
\* pickup() is only called while the pool holds fewer than MaxPool tasks.
MaxPool == 2
\* SpecFleet and SpecRiders: the fleet has FleetSize cabins.
FleetSize == 2
\* SpecFleet: pickup() is only called while the pool holds fewer than FleetPool tasks.
FleetPool == 2
\* SpecRiders: pickup() is only called while the pool holds fewer than RidersPool
\* tasks, selectFloor() while the cabin holds fewer than RidersDest drop-offs.
RidersPool == 1
RidersDest == 1

Floors == 0..MaxFloor
Directions == {"up", "down"}
CountArgs == 0..MaxElevators

\* ------------------------------------------------------------------ values

\* null of `currentPickupTask: PickupTask | null`
NoTask == [floor |-> 0, direction |-> "null"]

\* null of `FloorLimits = { top; bottom } | null`
NoLimits == [set |-> FALSE, top |-> 0, bottom |-> 0]

Limits(b, t) == [set |-> TRUE, top |-> t, bottom |-> b]

\* the limit arguments tried: none, and floors 0..MaxFloor-1 (so that MaxFloor is
\* a floor outside the limits and MaxFloor-1 and 0 are the terminal floors)
LimitArgs == {NoLimits, Limits(0, MaxFloor - 1)}

\* new Elevator(id, currentFloor)
NewElevator(id, floor) ==
    [id |-> id, currentFloor |-> floor, moveDirection |-> "null", status |-> "idle",
     destinations |-> <<>>, currentPickupTask |-> NoTask]

\* ------------------------------------------------------------------ helpers

Abs(x) == IF x < 0 THEN -x ELSE x

Range(s) == {s[i] : i \in DOMAIN s}

\* Math.max(...set) / Math.min(...set) on a non-empty set
SetMax(S) == CHOOSE x \in S : \A y \in S : y <= x
SetMin(S) == CHOOSE x \in S : \A y \in S : x <= y

\* Set.prototype.add: insertion order is kept, an element already present stays
\* where it is
SetAdd(s, x) == IF x \in Range(s) THEN s ELSE Append(s, x)

\* Set.prototype.delete
SetDelete(s, x) == SelectSeq(s, LAMBDA y : y # x)

\* Array.prototype.findIndex over the results b[i] of the callback, 1-based; 0 when
\* nothing matches
FindIndex(b) ==
    IF \E i \in DOMAIN b : b[i]
    THEN CHOOSE i \in DOMAIN b : b[i] /\ \A j \in 1..(i - 1) : ~b[j]
    ELSE 0

\* Array.prototype.splice(i, 1), 1-based
RemoveAt(s, i) == SubSeq(s, 1, i - 1) \o SubSeq(s, i + 1, Len(s))

\* ------------------------------------------------------------------ Elevator

isIdle(e) == e.status = "idle"

hasDestinations(e) == Len(e.destinations) > 0 \/ e.currentPickupTask # NoTask

\* currentDestination with a slip: pending drop-offs come before the assigned pickup
currentDestinationDropOffsFirst(e) ==
    IF Len(e.destinations) > 0
    THEN IF e.moveDirection = "up" THEN SetMax(Range(e.destinations))
         ELSE IF e.moveDirection = "down" THEN SetMin(Range(e.destinations))
         ELSE e.destinations[1]
    ELSE IF e.currentPickupTask # NoTask THEN e.currentPickupTask.floor
    ELSE e.currentFloor

currentDestination(e) ==
    IF e.currentPickupTask # NoTask THEN e.currentPickupTask.floor
    ELSE IF hasDestinations(e)
         THEN IF e.moveDirection = "up" THEN SetMax(Range(e.destinations))
              ELSE IF e.moveDirection = "down" THEN SetMin(Range(e.destinations))
              ELSE e.destinations[1]
         ELSE e.currentFloor

\* Result of a method of Elevator that can throw: the cabin as the call left it
\* and whether the call threw.
Ok(e) == [e |-> e, thrown |-> FALSE]
Threw(e) == [e |-> e, thrown |-> TRUE]

updateMoveDirection(e) ==
    IF currentDestination(e) = e.currentFloor THEN Threw(e)
    ELSE IF currentDestination(e) > e.currentFloor
         THEN Ok([e EXCEPT !.moveDirection = "up"])
         ELSE Ok([e EXCEPT !.moveDirection = "down"])

\* attemptToFlipMoveDirection with a slip: flips as soon as a drop-off lies behind
attemptToFlipMoveDirectionEager(e) ==
    IF e.currentPickupTask # NoTask THEN e
    ELSE IF e.moveDirection = "up" /\ \E y \in Range(e.destinations) : y < e.currentFloor
    THEN [e EXCEPT !.moveDirection = "down"]
    ELSE IF e.moveDirection = "down" /\ \E y \in Range(e.destinations) : y > e.currentFloor
    THEN [e EXCEPT !.moveDirection = "up"]
    ELSE e

attemptToFlipMoveDirection(e) ==
    LET e1 == IF e.moveDirection = "up" /\ currentDestination(e) < e.currentFloor
              THEN [e EXCEPT !.moveDirection = "down"] ELSE e
    IN  IF e1.moveDirection = "down" /\ currentDestination(e1) > e1.currentFloor
        THEN [e1 EXCEPT !.moveDirection = "up"] ELSE e1

\* the branch of moveFloor for status 'idle'
moveFloorIdle(e) ==
    IF hasDestinations(e)
    THEN IF e.currentFloor \in Range(e.destinations)
         THEN Ok([e EXCEPT !.destinations = SetDelete(@, e.currentFloor),
                           !.status = "stopped"])
         ELSE updateMoveDirection([e EXCEPT !.status = "moving"])
    ELSE Ok(e)

\* moveFloorStopped with a slip: a stopped cabin goes idle whether or not work is left
moveFloorStoppedGoesIdle(e) ==
    Ok([e EXCEPT !.status = "idle", !.moveDirection = "null"])

\* moveFloorStopped with a slip: going idle keeps the direction of the last trip
moveFloorStoppedKeepsDirection(e) ==
    IF ~hasDestinations(e)
    THEN Ok([e EXCEPT !.status = "idle"])
    ELSE LET e1 == attemptToFlipMoveDirection([e EXCEPT !.status = "moving"])
         IN  IF e1.moveDirection = "null" THEN updateMoveDirection(e1) ELSE Ok(e1)

\* moveFloorStopped with a slip: a stopped cabin with work left stays stopped
moveFloorStoppedStays(e) ==
    IF ~hasDestinations(e)
    THEN Ok([e EXCEPT !.status = "idle", !.moveDirection = "null"])
    ELSE Ok(e)

\* the branch of moveFloor for status 'stopped'
moveFloorStopped(e) ==
    IF ~hasDestinations(e)
    THEN Ok([e EXCEPT !.status = "idle", !.moveDirection = "null"])
    ELSE LET e1 == attemptToFlipMoveDirection([e EXCEPT !.status = "moving"])
         IN  IF e1.moveDirection = "null" THEN updateMoveDirection(e1) ELSE Ok(e1)

\* moveFloorMoving with a slip: reaching the assigned pickup keeps the direction of
\* travel
moveFloorMovingKeepsHeading(e) ==
    LET f  == e.currentFloor + (IF currentDestination(e) > e.currentFloor THEN 1 ELSE -1)
        e1 == [e EXCEPT !.currentFloor = f]
        e2 == IF f \in Range(e1.destinations)
              THEN [e1 EXCEPT !.destinations = SetDelete(@, f), !.status = "stopped"]
              ELSE e1
        e3 == IF e2.currentPickupTask # NoTask /\ e2.currentPickupTask.floor = f
              THEN [e2 EXCEPT !.currentPickupTask = NoTask,
                              !.status = "stopped"]
              ELSE e2
    IN  Ok(e3)

\* moveFloorMoving with a slip: reaching the assigned pickup clears it without
\* stopping the cabin
moveFloorMovingPassesPickup(e) ==
    LET f  == e.currentFloor + (IF currentDestination(e) > e.currentFloor THEN 1 ELSE -1)
        e1 == [e EXCEPT !.currentFloor = f]
        e2 == IF f \in Range(e1.destinations)
              THEN [e1 EXCEPT !.destinations = SetDelete(@, f), !.status = "stopped"]
              ELSE e1
        e3 == IF e2.currentPickupTask # NoTask /\ e2.currentPickupTask.floor = f
              THEN [e2 EXCEPT !.moveDirection = e2.currentPickupTask.direction,
                              !.currentPickupTask = NoTask]
              ELSE e2
    IN  Ok(e3)

\* moveFloorMoving with a slip: a stop for a drop-off also clears the assigned pickup
moveFloorMovingDropsPickup(e) ==
    LET f  == e.currentFloor + (IF currentDestination(e) > e.currentFloor THEN 1 ELSE -1)
        e1 == [e EXCEPT !.currentFloor = f]
        e2 == IF f \in Range(e1.destinations)
              THEN [e1 EXCEPT !.destinations = SetDelete(@, f), !.status = "stopped",
                              !.currentPickupTask = NoTask]
              ELSE e1
        e3 == IF e2.currentPickupTask # NoTask /\ e2.currentPickupTask.floor = f
              THEN [e2 EXCEPT !.moveDirection = e2.currentPickupTask.direction,
                              !.currentPickupTask = NoTask,
                              !.status = "stopped"]
              ELSE e2
    IN  Ok(e3)

\* the branch of moveFloor for status 'moving'
\* moveFloorMoving with a slip: a drop-off is served only where the cabin was heading
moveFloorMovingStopsAtDestinationOnly(e) ==
    LET d  == currentDestination(e)
        f  == e.currentFloor + (IF d > e.currentFloor THEN 1 ELSE -1)
        e1 == [e EXCEPT !.currentFloor = f]
        e2 == IF f \in Range(e1.destinations) /\ f = d
              THEN [e1 EXCEPT !.destinations = SetDelete(@, f), !.status = "stopped"]
              ELSE e1
        e3 == IF e2.currentPickupTask # NoTask /\ e2.currentPickupTask.floor = f
              THEN [e2 EXCEPT !.moveDirection = e2.currentPickupTask.direction,
                              !.currentPickupTask = NoTask,
                              !.status = "stopped"]
              ELSE e2
    IN  Ok(e3)

moveFloorMoving(e) ==
    LET f  == e.currentFloor + (IF currentDestination(e) > e.currentFloor THEN 1 ELSE -1)
        e1 == [e EXCEPT !.currentFloor = f]
        e2 == IF f \in Range(e1.destinations)
              THEN [e1 EXCEPT !.destinations = SetDelete(@, f), !.status = "stopped"]
              ELSE e1
        e3 == IF e2.currentPickupTask # NoTask /\ e2.currentPickupTask.floor = f
              THEN [e2 EXCEPT !.moveDirection = e2.currentPickupTask.direction,
                              !.currentPickupTask = NoTask,
                              !.status = "stopped"]
              ELSE e2
    IN  Ok(e3)

moveFloor(e) ==
    IF e.status = "idle" THEN moveFloorIdle(e)
    ELSE IF e.status = "stopped" THEN moveFloorStopped(e)
    ELSE moveFloorMoving(e)

\* canClearPickupTask with a slip: the exception for the bottom limit is missing
canClearPickupTaskTopOnly(e, task, limits, isSoleElevator) ==
    IF task.floor # e.currentFloor THEN FALSE
    ELSE IF isSoleElevator THEN TRUE
    ELSE IF task.direction # e.moveDirection THEN FALSE
    ELSE IF e.currentPickupTask # NoTask
         THEN IF limits.set /\ e.currentPickupTask.floor = limits.top /\ task.direction = "up"
              THEN TRUE
              ELSE e.currentPickupTask.direction = task.direction
         ELSE TRUE

\* canClearPickupTask with a slip: the assigned pickup's direction is not looked at
canClearPickupTaskIgnoresAssigned(e, task, limits, isSoleElevator) ==
    IF task.floor # e.currentFloor THEN FALSE
    ELSE IF isSoleElevator THEN TRUE
    ELSE task.direction = e.moveDirection

\* canClearPickupTask with a slip: no exception for an assigned pickup at a terminal
\* floor
canClearPickupTaskNoTerminal(e, task, limits, isSoleElevator) ==
    IF task.floor # e.currentFloor THEN FALSE
    ELSE IF isSoleElevator THEN TRUE
    ELSE IF task.direction # e.moveDirection THEN FALSE
    ELSE IF e.currentPickupTask # NoTask
         THEN e.currentPickupTask.direction = task.direction
         ELSE TRUE

\* canClearPickupTask with a slip: the direction of travel is not compared with the
\* task's
canClearPickupTaskAnyHeading(e, task, limits, isSoleElevator) ==
    IF task.floor # e.currentFloor THEN FALSE
    ELSE IF isSoleElevator THEN TRUE
    ELSE IF e.currentPickupTask # NoTask
         THEN IF limits.set /\ e.currentPickupTask.floor = limits.top /\ task.direction = "up"
              THEN TRUE
              ELSE IF limits.set /\ e.currentPickupTask.floor = limits.bottom
                      /\ task.direction = "down"
                   THEN TRUE
                   ELSE e.currentPickupTask.direction = task.direction
         ELSE TRUE

canClearPickupTask(e, task, limits, isSoleElevator) ==
    IF task.floor # e.currentFloor THEN FALSE
    ELSE IF isSoleElevator THEN TRUE
    ELSE IF task.direction # e.moveDirection THEN FALSE
    ELSE IF e.currentPickupTask # NoTask
         THEN IF limits.set /\ e.currentPickupTask.floor = limits.top /\ task.direction = "up"
              THEN TRUE
              ELSE IF limits.set /\ e.currentPickupTask.floor = limits.bottom
                      /\ task.direction = "down"
                   THEN TRUE
                   ELSE e.currentPickupTask.direction = task.direction
         ELSE TRUE

\* ------------------------------------------------------------------ ElevatorManager

\* isWithinLimits with a slip: the top limit is not compared
isWithinLimitsNoTop(limits, floor) ==
    IF ~limits.set THEN TRUE
    ELSE floor >= limits.bottom

isWithinLimits(limits, floor) ==
    IF ~limits.set THEN TRUE
    ELSE floor <= limits.top /\ floor >= limits.bottom

\* idleElevators with a slip: no filter, every cabin counts as idle
idleElevatorsUnfiltered(els) == [i \in 1..Len(els) |-> i]

\* the indices (1-based, in fleet order) of `this.elevators.filter((e) => e.isIdle)`
idleElevators(els) ==
    LET idx[i \in 0..Len(els)] ==
            IF i = 0 THEN <<>>
            ELSE IF isIdle(els[i]) THEN Append(idx[i - 1], i) ELSE idx[i - 1]
    IN  idx[Len(els)]

\* closestIdleElevator with a slip: <= for <, so the last of the closest cabins wins
closestIdleElevatorLastWins(els, idle, task) ==
    LET acc[k \in 1..Len(idle)] ==
            IF k = 1 THEN idle[1]
            ELSE IF Abs(els[idle[k]].currentFloor - task.floor)
                      <= Abs(els[acc[k - 1]].currentFloor - task.floor)
                 THEN idle[k] ELSE acc[k - 1]
    IN  acc[Len(idle)]

\* `idleElevators.reduce((prev, curr) => |curr - task| < |prev - task| ? curr : prev)`
\* over the indices idle, which is not empty
closestIdleElevator(els, idle, task) ==
    LET acc[k \in 1..Len(idle)] ==
            IF k = 1 THEN idle[1]
            ELSE IF Abs(els[idle[k]].currentFloor - task.floor)
                      < Abs(els[acc[k - 1]].currentFloor - task.floor)
                 THEN idle[k] ELSE acc[k - 1]
    IN  acc[Len(idle)]

\* moveActiveElevators with a slip: a cabin also serves the pickups other cabins
\* carry, as if they were still in the pool
RECURSIVE moveActiveElevatorsServesAssigned(_, _, _, _, _, _)
moveActiveElevatorsServesAssigned(i, els, pool, limits, sole, log) ==
    IF i > Len(els)
    THEN [elevators |-> els, pickupTasks |-> pool, thrown |-> FALSE,
          advanced |-> Len(els), absorbed |-> log]
    ELSE LET r == moveFloor(els[i])
             e == r.e
             served == {j \in DOMAIN els \ {i} :
                           /\ els[j].currentPickupTask # NoTask
                           /\ canClearPickupTask(e, els[j].currentPickupTask, limits, sole)}
             els1 == [j \in DOMAIN els |->
                        IF j = i THEN (IF served # {} THEN [e EXCEPT !.status = "stopped"] ELSE e)
                        ELSE IF j \in served THEN [els[j] EXCEPT !.currentPickupTask = NoTask]
                        ELSE els[j]]
         IN  IF r.thrown
             THEN [elevators |-> [els EXCEPT ![i] = e], pickupTasks |-> pool,
                   thrown |-> TRUE, advanced |-> i - 1, absorbed |-> log]
             ELSE IF isIdle(e)
             THEN moveActiveElevatorsServesAssigned(i + 1, [els EXCEPT ![i] = e], pool,
                                                    limits, sole, log)
             ELSE LET taskToClearI ==
                          FindIndex([k \in DOMAIN pool |->
                                        canClearPickupTask(e, pool[k], limits, sole)])
                  IN  IF taskToClearI > 0
                      THEN moveActiveElevatorsServesAssigned(i + 1,
                               [els1 EXCEPT ![i] = [e EXCEPT !.status = "stopped"]],
                               RemoveAt(pool, taskToClearI), limits, sole,
                               Append(log, [task |-> pool[taskToClearI], by |-> i]))
                      ELSE moveActiveElevatorsServesAssigned(i + 1, els1, pool,
                                                             limits, sole, log)

\* moveActiveElevators with a slip: the cabins are taken from the end of the fleet to
\* its start
RECURSIVE moveActiveElevatorsHighestFirst(_, _, _, _, _, _)
moveActiveElevatorsHighestFirst(i, els, pool, limits, sole, log) ==
    IF i > Len(els)
    THEN [elevators |-> els, pickupTasks |-> pool, thrown |-> FALSE,
          advanced |-> Len(els), absorbed |-> log]
    ELSE LET j == Len(els) + 1 - i
             r == moveFloor(els[j])
         IN  IF r.thrown
             THEN [elevators |-> [els EXCEPT ![j] = r.e], pickupTasks |-> pool,
                   thrown |-> TRUE, advanced |-> i - 1, absorbed |-> log]
             ELSE IF isIdle(r.e)
             THEN moveActiveElevatorsHighestFirst(i + 1, [els EXCEPT ![j] = r.e], pool,
                                                  limits, sole, log)
             ELSE LET taskToClearI ==
                          FindIndex([k \in DOMAIN pool |->
                                        canClearPickupTask(r.e, pool[k], limits, sole)])
                  IN  IF taskToClearI > 0
                      THEN moveActiveElevatorsHighestFirst(i + 1,
                               [els EXCEPT ![j] = [r.e EXCEPT !.status = "stopped"]],
                               RemoveAt(pool, taskToClearI), limits, sole,
                               Append(log, [task |-> pool[taskToClearI], by |-> j]))
                      ELSE moveActiveElevatorsHighestFirst(i + 1, [els EXCEPT ![j] = r.e],
                                                           pool, limits, sole, log)

\* first loop of step(): each cabin advances, then absorbs the first pool task it
\* can clear.  i is the index of the next cabin.  A throw of moveFloor ends step();
\* advanced counts the cabins whose moveFloor() returned, and log collects one entry
\* per absorption: the task and the index of the cabin that absorbed it.
RECURSIVE moveActiveElevatorsPassesBy(_, _, _, _, _, _)
\* moveActiveElevators with a slip: the task is taken from the pool but the cabin
\* is not stopped for it
moveActiveElevatorsPassesBy(i, els, pool, limits, sole, log) ==
    IF i > Len(els)
    THEN [elevators |-> els, pickupTasks |-> pool, thrown |-> FALSE,
          advanced |-> Len(els), absorbed |-> log]
    ELSE LET r == moveFloor(els[i])
             e == r.e
         IN  IF r.thrown
             THEN [elevators |-> [els EXCEPT ![i] = e], pickupTasks |-> pool,
                   thrown |-> TRUE, advanced |-> i - 1, absorbed |-> log]
             ELSE IF isIdle(e)
             THEN moveActiveElevatorsPassesBy(i + 1, [els EXCEPT ![i] = e], pool, limits,
                                              sole, log)
             ELSE LET taskToClearI ==
                          FindIndex([k \in DOMAIN pool |->
                                        canClearPickupTask(e, pool[k], limits, sole)])
                  IN  IF taskToClearI > 0
                      THEN moveActiveElevatorsPassesBy(i + 1, [els EXCEPT ![i] = e],
                               RemoveAt(pool, taskToClearI), limits, sole,
                               Append(log, [task |-> pool[taskToClearI], by |-> i]))
                      ELSE moveActiveElevatorsPassesBy(i + 1, [els EXCEPT ![i] = e], pool,
                                                       limits, sole, log)

RECURSIVE moveActiveElevators(_, _, _, _, _, _)
moveActiveElevators(i, els, pool, limits, sole, log) ==
    IF i > Len(els)
    THEN [elevators |-> els, pickupTasks |-> pool, thrown |-> FALSE,
          advanced |-> Len(els), absorbed |-> log]
    ELSE LET r == moveFloor(els[i])
             e == r.e
         IN  IF r.thrown
             THEN [elevators |-> [els EXCEPT ![i] = e], pickupTasks |-> pool,
                   thrown |-> TRUE, advanced |-> i - 1, absorbed |-> log]
             ELSE IF isIdle(e)
             THEN moveActiveElevators(i + 1, [els EXCEPT ![i] = e], pool, limits, sole, log)
             ELSE LET taskToClearI ==
                          FindIndex([k \in DOMAIN pool |->
                                        canClearPickupTask(e, pool[k], limits, sole)])
                  IN  IF taskToClearI > 0
                      THEN moveActiveElevators(i + 1,
                               [els EXCEPT ![i] = [e EXCEPT !.status = "stopped"]],
                               RemoveAt(pool, taskToClearI), limits, sole,
                               Append(log, [task |-> pool[taskToClearI], by |-> i]))
                      ELSE moveActiveElevators(i + 1, [els EXCEPT ![i] = e], pool,
                                               limits, sole, log)

\* assignPickups with a slip: the assigned task is read from the head of the pool
\* but not taken out of it
RECURSIVE assignPickupsKeepsHead(_, _, _)
assignPickupsKeepsHead(els, pool, log) ==
    IF Len(pool) > 0 /\ Len(idleElevators(els)) > 0
    THEN LET task == Head(pool)
             idle == idleElevators(els)
             c    == closestIdleElevator(els, idle, task)
             r    == updateMoveDirection([els[c] EXCEPT !.currentPickupTask = task,
                                                        !.status = "moving"])
             log1 == Append(log, [task |-> task, to |-> c, idle |-> Range(idle)])
         IN  IF r.thrown
             THEN [elevators |-> [els EXCEPT ![c] = r.e], pickupTasks |-> pool,
                   thrown |-> TRUE, assigned |-> log1, advanced |-> Len(els)]
             ELSE assignPickupsKeepsHead([els EXCEPT ![c] = r.e], pool, log1)
    ELSE [elevators |-> els, pickupTasks |-> pool, thrown |-> FALSE, assigned |-> log,
          advanced |-> Len(els)]

\* assignPickups with a slip: the task assigned is the last of the pool, not the head
RECURSIVE assignPickupsTakesLast(_, _, _)
assignPickupsTakesLast(els, pool, log) ==
    IF Len(pool) > 0 /\ Len(idleElevators(els)) > 0
    THEN LET task == pool[Len(pool)]
             idle == idleElevators(els)
             c    == closestIdleElevator(els, idle, task)
             r    == updateMoveDirection([els[c] EXCEPT !.currentPickupTask = task,
                                                        !.status = "moving"])
             log1 == Append(log, [task |-> task, to |-> c, idle |-> Range(idle)])
         IN  IF r.thrown
             THEN [elevators |-> [els EXCEPT ![c] = r.e],
                   pickupTasks |-> SubSeq(pool, 1, Len(pool) - 1),
                   thrown |-> TRUE, assigned |-> log1, advanced |-> Len(els)]
             ELSE assignPickupsTakesLast([els EXCEPT ![c] = r.e],
                                         SubSeq(pool, 1, Len(pool) - 1), log1)
    ELSE [elevators |-> els, pickupTasks |-> pool, thrown |-> FALSE, assigned |-> log,
          advanced |-> Len(els)]

\* second loop of step(): the head of the pool goes to the closest idle cabin.
\* log collects one entry per assignment: the task, the receiving index and the
\* indices idle when it was made.
RECURSIVE assignPickups(_, _, _)
assignPickups(els, pool, log) ==
    IF Len(pool) > 0 /\ Len(idleElevators(els)) > 0
    THEN LET task == Head(pool)
             idle == idleElevators(els)
             c    == closestIdleElevator(els, idle, task)
             r    == updateMoveDirection([els[c] EXCEPT !.currentPickupTask = task,
                                                        !.status = "moving"])
             log1 == Append(log, [task |-> task, to |-> c, idle |-> Range(idle)])
         IN  IF r.thrown
             THEN [elevators |-> [els EXCEPT ![c] = r.e], pickupTasks |-> Tail(pool),
                   thrown |-> TRUE, assigned |-> log1, advanced |-> Len(els)]
             ELSE assignPickups([els EXCEPT ![c] = r.e], Tail(pool), log1)
    ELSE [elevators |-> els, pickupTasks |-> pool, thrown |-> FALSE, assigned |-> log,
          advanced |-> Len(els)]

\* second loop of step() after the first loop ended as m: skipped when the first
\* loop threw
assignAfter(m) ==
    IF m.thrown
    THEN [elevators |-> m.elevators, pickupTasks |-> m.pickupTasks,
          thrown |-> TRUE, assigned |-> <<>>]
    ELSE assignPickups(m.elevators, m.pickupTasks, <<>>)

\* what step() leaves when its first loop ended as m and its second loop as a
stepResult(m, a) ==
    [elevators |-> a.elevators, pickupTasks |-> a.pickupTasks, thrown |-> a.thrown,
     assigned |-> a.assigned, advanced |-> m.advanced, absorbed |-> m.absorbed]

stepAfter(m) == stepResult(m, assignAfter(m))

\* step(): the state it leaves, whether it threw, and the absorptions and
\* assignments it made
step(els, pool, limits, sole) ==
    stepAfter(moveActiveElevators(1, els, pool, limits, sole, <<>>))

\* pickup with a slip: the task is pushed without a look at the pool
pickupPushesAlways(pool, floor, direction) ==
    Append(pool, [floor |-> floor, direction |-> direction])

\* the pool pickup(floor, direction) leaves when the floor is within the limits
pickup(pool, floor, direction) ==
    IF \E i \in DOMAIN pool : pool[i].floor = floor /\ pool[i].direction = direction
    THEN pool
    ELSE Append(pool, [floor |-> floor, direction |-> direction])

\* the fleet selectFloor(elevatorID, floor) leaves when the floor is within the limits
\* and i is the index of the first cabin with that id
selectFloor(els, i, floor) == [els EXCEPT ![i].destinations = SetAdd(@, floor)]

\* getAllTasks(): the pool, then the pickups the cabins carry, in fleet order
getAllTasks(els, pool) ==
    LET carried[i \in 0..Len(els)] ==
            IF i = 0 THEN <<>>
            ELSE IF els[i].currentPickupTask # NoTask
                 THEN Append(carried[i - 1], els[i].currentPickupTask)
                 ELSE carried[i - 1]
    IN  pool \o carried[Len(els)]

\* tasks(): a copy of each task of getAllTasks()
tasks(els, pool) ==
    [k \in DOMAIN getAllTasks(els, pool) |->
        [floor |-> getAllTasks(els, pool)[k].floor,
         direction |-> getAllTasks(els, pool)[k].direction]]

\* status(): one summary per cabin, in fleet order
status(els) ==
    [i \in DOMAIN els |->
        [id |-> els[i].id, floor |-> els[i].currentFloor,
         destination |-> currentDestination(els[i]), status |-> els[i].status]]

\* ------------------------------------------------------------------ state machine

\* new ElevatorManager(elevatorCount, floorLimits)
Init ==
    /\ elevatorCount \in CountArgs
    /\ elevators = [i \in 1..elevatorCount |-> NewElevator(i - 1, 0)]
    /\ pickupTasks = <<>>
    /\ floorLimits \in LimitArgs
    /\ soleElevatorMode = FALSE
    /\ thrown = "none"
    /\ assigned = <<>>
    /\ absorbed = <<>>
    /\ returned = <<>>

\* pickup(floor, direction)
Pickup(floor, direction) ==
    /\ assigned' = <<>>
    /\ absorbed' = <<>>
    /\ returned' = <<>>
    /\ UNCHANGED <<elevators, elevatorCount, floorLimits, soleElevatorMode>>
    /\ IF ~isWithinLimits(floorLimits, floor)
       THEN thrown' = "limits" /\ UNCHANGED pickupTasks
       ELSE /\ thrown' = "none"
            /\ pickupTasks' = pickup(pickupTasks, floor, direction)

\* selectFloor(elevatorID, floor)
SelectFloor(elevatorID, floor) ==
    /\ assigned' = <<>>
    /\ absorbed' = <<>>
    /\ returned' = <<>>
    /\ UNCHANGED <<pickupTasks, elevatorCount, floorLimits, soleElevatorMode>>
    /\ IF ~isWithinLimits(floorLimits, floor)
       THEN thrown' = "limits" /\ UNCHANGED elevators
       ELSE LET i == FindIndex([k \in DOMAIN elevators |-> elevators[k].id = elevatorID])
            IN  IF i = 0
                THEN thrown' = "id" /\ UNCHANGED elevators
                ELSE /\ thrown' = "none"
                     /\ elevators' = selectFloor(elevators, i, floor)

\* step()
Step ==
    \E r \in {step(elevators, pickupTasks, floorLimits, soleElevatorMode)} :
        /\ elevators' = r.elevators
        /\ pickupTasks' = r.pickupTasks
        /\ thrown' = IF r.thrown THEN "direction" ELSE "none"
        /\ assigned' = r.assigned
        /\ absorbed' = r.absorbed
        /\ returned' = <<>>
        /\ UNCHANGED <<elevatorCount, floorLimits, soleElevatorMode>>

\* SetElevator with a slip: the pickup the old cabin carried is not returned to the
\* pool
SetElevatorDropsTask(id, floor) ==
    /\ assigned' = <<>>
    /\ absorbed' = <<>>
    /\ returned' = <<>>
    /\ LET len         == Len(elevators)
           start       == IF id < 0 THEN (IF len + id > 0 THEN len + id ELSE 0)
                          ELSE (IF id < len THEN id ELSE len)
           deleteCount == IF len - start < 1 THEN 0 ELSE 1
       IN  /\ elevators' = SubSeq(elevators, 1, start) \o <<NewElevator(id, floor)>>
                             \o SubSeq(elevators, start + deleteCount + 1, len)
           /\ thrown' = IF deleteCount = 0 THEN "type" ELSE "none"
    /\ UNCHANGED <<pickupTasks, elevatorCount, floorLimits, soleElevatorMode>>

\* setElevator(id, floor).  Array.prototype.splice(id, 1, cabin) counts a negative
\* id from the end and clamps the start to 0..length; it deletes the cabin at the
\* start, if there is one, and inserts the new cabin there.  With nothing deleted
\* oldElevator is undefined and reading its currentPickupTask throws a TypeError,
\* after the splice.
SetElevator(id, floor) ==
    /\ assigned' = <<>>
    /\ absorbed' = <<>>
    /\ returned' = <<>>
    /\ LET len         == Len(elevators)
           start       == IF id < 0 THEN (IF len + id > 0 THEN len + id ELSE 0)
                          ELSE (IF id < len THEN id ELSE len)
           deleteCount == IF len - start < 1 THEN 0 ELSE 1
       IN  /\ elevators' = SubSeq(elevators, 1, start) \o <<NewElevator(id, floor)>>
                             \o SubSeq(elevators, start + deleteCount + 1, len)
           /\ IF deleteCount = 0
              THEN thrown' = "type" /\ UNCHANGED pickupTasks
              ELSE LET oldElevator == elevators[start + 1]
                   IN  /\ thrown' = "none"
                       /\ pickupTasks' = IF oldElevator.currentPickupTask # NoTask
                                         THEN Append(pickupTasks, oldElevator.currentPickupTask)
                                         ELSE pickupTasks
    /\ UNCHANGED <<elevatorCount, floorLimits, soleElevatorMode>>

\* SetElevatorCount with a slip: the pickups of the cabins cut off go back to the
\* pool, as setElevator() does
SetElevatorCountReturnsTasks(newCount) ==
    /\ assigned' = <<>>
    /\ absorbed' = <<>>
    /\ returned' = <<>>
    /\ thrown' = "none"
    /\ LET grown == [i \in 1..(IF newCount > Len(elevators) THEN newCount ELSE Len(elevators))
                        |-> IF i <= Len(elevators) THEN elevators[i] ELSE NewElevator(i - 1, 0)]
           start == IF newCount < 0
                    THEN (IF Len(grown) + newCount > 0 THEN Len(grown) + newCount ELSE 0)
                    ELSE newCount
           cut   == IF newCount < elevatorCount THEN SubSeq(grown, start + 1, Len(grown))
                    ELSE <<>>
       IN  /\ elevators' = IF newCount < elevatorCount THEN SubSeq(grown, 1, start) ELSE grown
           /\ pickupTasks' = pickupTasks \o
                 [k \in 1..Len(SelectSeq(cut, LAMBDA e : e.currentPickupTask # NoTask)) |->
                     SelectSeq(cut, LAMBDA e : e.currentPickupTask # NoTask)[k].currentPickupTask]
    /\ elevatorCount' = newCount
    /\ UNCHANGED <<floorLimits, soleElevatorMode>>

\* setElevatorCount(newCount).  The fleet grows to newCount cabins with ids that
\* continue the index; it is cut when newCount is below the recorded elevatorCount:
\* Array.prototype.splice(newCount) deletes from index newCount to the end, and
\* counts a negative newCount from the end.
SetElevatorCount(newCount) ==
    /\ assigned' = <<>>
    /\ absorbed' = <<>>
    /\ returned' = <<>>
    /\ thrown' = "none"
    /\ LET grown == [i \in 1..(IF newCount > Len(elevators) THEN newCount ELSE Len(elevators))
                        |-> IF i <= Len(elevators) THEN elevators[i] ELSE NewElevator(i - 1, 0)]
           start == IF newCount < 0
                    THEN (IF Len(grown) + newCount > 0 THEN Len(grown) + newCount ELSE 0)
                    ELSE newCount
       IN  elevators' = IF newCount < elevatorCount THEN SubSeq(grown, 1, start) ELSE grown
    /\ elevatorCount' = newCount
    /\ UNCHANGED <<pickupTasks, floorLimits, soleElevatorMode>>

\* setFloorLimits(newLimits)
SetFloorLimits(newLimits) ==
    /\ assigned' = <<>>
    /\ absorbed' = <<>>
    /\ returned' = <<>>
    /\ thrown' = "none"
    /\ floorLimits' = newLimits
    /\ UNCHANGED <<elevators, pickupTasks, elevatorCount, soleElevatorMode>>

\* setSoleElevatorMode(enabled)
SetSoleElevatorMode(enabled) ==
    /\ assigned' = <<>>
    /\ absorbed' = <<>>
    /\ returned' = <<>>
    /\ thrown' = "none"
    /\ soleElevatorMode' = enabled
    /\ UNCHANGED <<elevators, pickupTasks, elevatorCount, floorLimits>>

\* elevators[i].canClearPickupTask(pickupTasks[k], floorLimits, soleElevatorMode),
\* the call step() makes for each pool task
CanClearPickupTask(i, k) ==
    /\ assigned' = <<>>
    /\ absorbed' = <<>>
    /\ thrown' = "none"
    /\ returned' = <<canClearPickupTask(elevators[i], pickupTasks[k], floorLimits,
                                        soleElevatorMode)>>
    /\ UNCHANGED <<elevators, pickupTasks, elevatorCount, floorLimits, soleElevatorMode>>

\* status()
Status ==
    /\ assigned' = <<>>
    /\ absorbed' = <<>>
    /\ thrown' = "none"
    /\ returned' = <<status(elevators)>>
    /\ UNCHANGED <<elevators, pickupTasks, elevatorCount, floorLimits, soleElevatorMode>>

\* elevators[i].currentDestination, the getter status() and moveFloor() read
CurrentDestination(i) ==
    /\ assigned' = <<>>
    /\ absorbed' = <<>>
    /\ thrown' = "none"
    /\ returned' = <<currentDestination(elevators[i])>>
    /\ UNCHANGED <<elevators, pickupTasks, elevatorCount, floorLimits, soleElevatorMode>>

\* ------------------------------------------------------------------ specifications

\* The calls the specifications below make are calls the dispatcher accepts: a floor
\* within the limits, the id of a cabin of the fleet.  (A rejected pickup() or
\* selectFloor() throws before it changes anything.)
ids == {elevators[i].id : i \in DOMAIN elevators}

\* Spec: a building with at most MaxElevators cabins; every public method.
Next ==
    \/ \E f \in Floors, d \in Directions :
          Len(pickupTasks) < MaxPool /\ isWithinLimits(floorLimits, f) /\ Pickup(f, d)
    \/ \E id \in ids, f \in Floors : isWithinLimits(floorLimits, f) /\ SelectFloor(id, f)
    \/ Step
    \/ \E id \in ids, f \in Floors : SetElevator(id, f)
    \/ \E n \in CountArgs : SetElevatorCount(n)
    \/ \E l \in LimitArgs : SetFloorLimits(l)
    \/ \E b \in BOOLEAN : SetSoleElevatorMode(b)

Spec == Init /\ [][Next]_vars

\* new ElevatorManager(FleetSize)
InitFleet ==
    /\ elevatorCount = FleetSize
    /\ elevators = [i \in 1..elevatorCount |-> NewElevator(i - 1, 0)]
    /\ pickupTasks = <<>>
    /\ floorLimits = NoLimits
    /\ soleElevatorMode = FALSE
    /\ thrown = "none"
    /\ assigned = <<>>
    /\ absorbed = <<>>
    /\ returned = <<>>

\* SpecFleet: a fleet of FleetSize cabins that serve hall calls and are reset.
NextFleet ==
    \/ \E f \in Floors, d \in Directions : Len(pickupTasks) < FleetPool /\ Pickup(f, d)
    \/ Step
    \/ \E id \in ids, f \in Floors : SetElevator(id, f)

SpecFleet == InitFleet /\ [][NextFleet]_vars

\* SpecRiders: a fleet of FleetSize cabins that serve hall calls and riders.
NextRiders ==
    \/ \E f \in Floors, d \in Directions : Len(pickupTasks) < RidersPool /\ Pickup(f, d)
    \/ \E i \in DOMAIN elevators, f \in Floors :
          Len(elevators[i].destinations) < RidersDest /\ SelectFloor(elevators[i].id, f)
    \/ Step

SpecRiders == InitFleet /\ [][NextRiders]_vars

\* ------------------------------------------------------------------ properties

Cabins == DOMAIN elevators

TaskValues == [floor : Floors, direction : Directions]

\* how many times task t is held: entries of the pool plus cabins that carry it
Copies(pool, els, t) ==
    Cardinality({i \in DOMAIN pool : pool[i] = t})
    + Cardinality({i \in DOMAIN els : els[i].currentPickupTask = t})

\* C1 (as stated): every pickup task (floor, direction) is in exactly one place: no
\* task a cabin carries is also in the pool, and no two cabins carry the same task.
C1_TaskInExactlyOnePlace ==
    \A i \in Cabins :
        elevators[i].currentPickupTask # NoTask =>
            /\ elevators[i].currentPickupTask \notin Range(pickupTasks)
            /\ \A j \in Cabins \ {i} :
                   elevators[j].currentPickupTask # elevators[i].currentPickupTask

\* C1 (amended): tasks are moved, never copied.  No public operation raises the
\* number of places that hold a task (floor, direction), except an accepted pickup()
\* of a task that is not in the pool, which appends it to the pool once and leaves
\* the cabins alone.
C1_TasksMovedNotCopied ==
    [][\A t \in TaskValues :
           \/ Copies(pickupTasks', elevators', t) <= Copies(pickupTasks, elevators, t)
           \/ /\ t \notin Range(pickupTasks)
              /\ pickupTasks' = Append(pickupTasks, t)
              /\ elevators' = elevators]_vars

\* a step has just handed a pool task to a cabin, and the pool no longer holds it
C1_Witness ==
    /\ assigned # <<>>
    /\ \E i \in Cabins :
           /\ elevators[i].currentPickupTask # NoTask
           /\ elevators[i].currentPickupTask \notin Range(pickupTasks)
           /\ pickupTasks # <<>>

\* C2: step() never raises the error of updateMoveDirection.
C2_StepNeverRaises == thrown # "direction"

\* C3: whenever floor limits are set, every cabin's floor lies within them.
C3_FloorWithinLimits ==
    floorLimits.set =>
        \A i \in Cabins :
            /\ elevators[i].currentFloor >= floorLimits.bottom
            /\ elevators[i].currentFloor <= floorLimits.top

IdleHasNoPickupNoDirection(els) ==
    \A i \in DOMAIN els :
        isIdle(els[i]) =>
            els[i].currentPickupTask = NoTask /\ els[i].moveDirection = "null"

C5_MovingCabinHasWork ==
    \A i \in Cabins : elevators[i].status = "moving" => hasDestinations(elevators[i])

\* a cabin is moving with drop-offs only
C5_Witness ==
    \E i \in Cabins :
        /\ elevators[i].status = "moving"
        /\ elevators[i].currentPickupTask = NoTask
        /\ Len(elevators[i].destinations) > 1

\* C6: the pool holds no two tasks with the same (floor, direction).
C6_PoolHasNoDuplicates ==
    \A i, j \in DOMAIN pickupTasks : i # j => pickupTasks[i] # pickupTasks[j]

\* C7: a cabin that carries an assigned pickup carries the same one after every
\* public operation, unless the operation brought the cabin to the pickup's floor
\* (it is then stopped there, the pickup cleared and not back in the pool by that
\* step) or was setElevator() on that cabin; and step() adds nothing to the pool.
C7_NoPreemption ==
    [][/\ \A i \in DOMAIN elevators \cap DOMAIN elevators' :
              LET task == elevators[i].currentPickupTask
              IN  task # NoTask =>
                    \/ elevators'[i].currentPickupTask = task
                    \/ /\ Step
                       /\ elevators'[i].currentPickupTask = NoTask
                       /\ elevators'[i].currentFloor = task.floor
                       /\ elevators'[i].status = "stopped"
                       /\ elevators[i].currentFloor # task.floor
                    \/ \E f \in Floors : SetElevator(elevators[i].id, f)
       /\ Step => \A t \in TaskValues :
                      Cardinality({k \in DOMAIN pickupTasks' : pickupTasks'[k] = t})
                          <= Cardinality({k \in DOMAIN pickupTasks : pickupTasks[k] = t})]_vars

\* a cabin on its way to its assigned pickup has stopped at another floor (for a
\* pool task it absorbed or a drop-off) and still carries the pickup, while another
\* cabin is idle
C7_Witness ==
    \E i, j \in Cabins :
        /\ elevators[i].currentPickupTask # NoTask
        /\ elevators[i].status = "stopped"
        /\ elevators[i].currentFloor # elevators[i].currentPickupTask.floor
        /\ isIdle(elevators[j])

\* nothing is left to do and nothing is shown as a destination
Quiescent(els, pool) ==
    /\ pool = <<>>
    /\ \A i \in DOMAIN els :
           /\ isIdle(els[i])
           /\ els[i].destinations = <<>>
           /\ els[i].currentPickupTask = NoTask
           /\ currentDestination(els[i]) = els[i].currentFloor

\* the driver's loop `while (work is left) system.step()`, cut off after n calls:
\* the fleet and the pool it leaves
RECURSIVE stepTimes(_, _, _, _, _)
stepTimes(n, els, pool, limits, sole) ==
    IF n = 0 \/ Quiescent(els, pool) THEN [elevators |-> els, pickupTasks |-> pool]
    ELSE LET r == step(els, pool, limits, sole)
         IN  stepTimes(n - 1, r.elevators, r.pickupTasks, limits, sole)

Drained(n) ==
    LET m == stepTimes(n, elevators, pickupTasks, floorLimits, soleElevatorMode)
    IN  Quiescent(m.elevators, m.pickupTasks)

\* the work the specifications can have pending at a time (pool tasks, assigned
\* pickups, drop-offs), each worth a trip over the floors, a stop and a restart
DrainBound == (MaxPool + FleetPool + FleetSize * (MaxFloor + 2)) * (MaxFloor + 3)

\* C8: with at least one cabin, DrainBound calls of step() with no other call in
\* between leave the pool empty and every cabin idle, with no drop-off, no
\* assigned pickup and its destination equal to its floor; and a step() removes a
\* drop-off of a cabin only with that cabin stopped at its floor, and a pickup task
\* from the system only with some cabin stopped at its floor.
C8_Completion ==
    /\ [](Len(elevators) >= 1 => Drained(DrainBound))
    /\ [][Step =>
            /\ \A i \in Cabins :
                   \A f \in Range(elevators[i].destinations)
                            \ Range(elevators'[i].destinations) :
                       /\ elevators'[i].currentFloor = f
                       /\ elevators'[i].status = "stopped"
            /\ \A t \in TaskValues :
                   Copies(pickupTasks', elevators', t) < Copies(pickupTasks, elevators, t) =>
                       \E i \in Cabins : /\ elevators'[i].currentFloor = t.floor
                                         /\ elevators'[i].status = "stopped"]_vars

\* pool tasks, an assigned pickup and drop-offs are all pending
C8_Witness ==
    /\ pickupTasks # <<>>
    /\ \E i, j \in Cabins :
           /\ elevators[i].currentPickupTask # NoTask
           /\ elevators[j].destinations # <<>>
    /\ ~Drained(MaxFloor + FleetSize * RidersDest + RidersPool + FleetSize)

\* C9: each assignment of the last step() went to a cabin that was idle at that
\* moment and no idle cabin was closer to the task's floor; among the closest idle
\* cabins it has the lowest id.
C9_ClosestIdleAssignment ==
    \A k \in DOMAIN assigned :
        LET a == assigned[k]
            d(i) == Abs(elevators[i].currentFloor - a.task.floor)
        IN  /\ a.to \in a.idle
            /\ elevators[a.to].currentPickupTask = a.task
            /\ \A j \in a.idle :
                   /\ d(a.to) <= d(j)
                   /\ d(a.to) = d(j) => elevators[a.to].id <= elevators[j].id

\* a task went to the lower id of two idle cabins at different floors, equally far
C9_Witness ==
    \E k \in DOMAIN assigned :
        LET a == assigned[k]
        IN  \E j \in a.idle :
                /\ j # a.to
                /\ elevators[j].currentFloor # elevators[a.to].currentFloor
                /\ Abs(elevators[j].currentFloor - a.task.floor)
                     = Abs(elevators[a.to].currentFloor - a.task.floor)

\* C10: a cabin gets an assigned pickup only in the assignment phase of a step(),
\* as one of the cabins idle at that moment: before the step it was idle or
\* stopped with no drop-off, and it has no drop-off after it.
C10_AssignedOnlyWhenIdle ==
    [][\A i \in DOMAIN elevators \cap DOMAIN elevators' :
           (elevators[i].currentPickupTask = NoTask
              /\ elevators'[i].currentPickupTask # NoTask) =>
               /\ Step
               /\ elevators[i].status \in {"idle", "stopped"}
               /\ elevators[i].destinations = <<>>
               /\ elevators'[i].destinations = <<>>
               /\ \E k \in DOMAIN assigned' :
                      /\ assigned'[k].to = i
                      /\ i \in assigned'[k].idle
                      /\ assigned'[k].task = elevators'[i].currentPickupTask]_vars

\* a pool task waits while the only cabin, free of an assigned pickup, is busy with
\* drop-offs
C10_Witness ==
    /\ pickupTasks # <<>>
    /\ Len(elevators) = 1
    /\ elevators[1].currentPickupTask = NoTask
    /\ elevators[1].status = "moving"
    /\ elevators[1].destinations # <<>>

\* drop-offs of cabin e below and above its floor
Below(e) == {f \in Range(e.destinations) : f < e.currentFloor}
Above(e) == {f \in Range(e.destinations) : f > e.currentFloor}

\* C11: a step() that clears a cabin's assigned pickup leaves the cabin stopped at
\* the pickup's floor with the pickup's declared direction; and a cabin stopped with
\* direction d, no assigned pickup and drop-offs on both sides of its floor has,
\* after the next step(), the farthest drop-off in direction d as its destination
\* (the maximum for up, the minimum for down), whatever the order of selection.
C11_DeclaredDirectionWins ==
    [][Step =>
         \A i \in Cabins :
             LET e  == elevators[i]
                 e1 == elevators'[i]
             IN  /\ (e.currentPickupTask # NoTask /\ e1.currentPickupTask = NoTask) =>
                        /\ e1.status = "stopped"
                        /\ e1.currentFloor = e.currentPickupTask.floor
                        /\ e1.moveDirection = e.currentPickupTask.direction
                 /\ (/\ e.status = "stopped"
                     /\ e.currentPickupTask = NoTask
                     /\ e.moveDirection \in Directions
                     /\ Below(e) # {} /\ Above(e) # {}) =>
                        currentDestination(e1) =
                            IF e.moveDirection = "up" THEN SetMax(Range(e.destinations))
                            ELSE SetMin(Range(e.destinations))]_vars

\* a cabin that came up to a pickup declared down and was given a drop-off above
\* first, then one below, has left for the one below
C11_Witness ==
    \E i \in Cabins :
        /\ elevators[i].status = "moving"
        /\ elevators[i].moveDirection = "down"
        /\ elevators[i].currentPickupTask = NoTask
        /\ Below(elevators[i]) # {} /\ Above(elevators[i]) # {}
        /\ elevators[i].destinations[1] > elevators[i].currentFloor
        /\ currentDestination(elevators[i]) = SetMin(Range(elevators[i].destinations))

\* drop-offs of cabin e on the side of direction d
OnSide(e, d) == IF d = "up" THEN Above(e) ELSE Below(e)

\* C12 (as stated, for a step() that directly follows the absorbing step()): a cabin
\* that absorbed a pool pickup, in any mode, and has a drop-off on the side of the
\* pickup's declared direction has that direction after the step() that advances it
\* next.
C12_AbsorbedDirectionAnyMode ==
    [][Step =>
         \A k \in DOMAIN absorbed :
             LET a == absorbed[k]
             IN  (/\ OnSide(elevators[a.by], a.task.direction) # {}
                  /\ a.by <= step(elevators, pickupTasks, floorLimits,
                                  soleElevatorMode).advanced) =>
                     elevators'[a.by].moveDirection = a.task.direction]_vars

\* C12 (amended): with sole mode off, a step() that has a cabin absorb a pool pickup
\* leaves the cabin stopped at the pickup's floor with the pickup's declared
\* direction; no call other than step() changes the direction of a cabin it leaves
\* non-idle; and a step() leaves a stopped cabin that has a direction and a drop-off
\* on that side at its floor, with that direction, and no longer stopped unless it
\* absorbed again or the step() raised before advancing it.
C12_AbsorbedDirectionSticks ==
    [][IF Step
       THEN /\ ~soleElevatorMode =>
                   \A k \in DOMAIN absorbed' :
                       LET a  == absorbed'[k]
                           e1 == elevators'[a.by]
                       IN  /\ e1.status = "stopped"
                           /\ e1.currentFloor = a.task.floor
                           /\ e1.moveDirection = a.task.direction
            /\ \A i \in Cabins :
                   LET e  == elevators[i]
                       e1 == elevators'[i]
                   IN  (/\ e.status = "stopped"
                        /\ e.moveDirection \in Directions
                        /\ OnSide(e, e.moveDirection) # {}) =>
                           /\ e1.moveDirection = e.moveDirection
                           /\ e1.currentFloor = e.currentFloor
                           /\ \/ e1.status = "moving"
                              \/ \E k \in DOMAIN absorbed' : absorbed'[k].by = i
                              \/ i > step(elevators, pickupTasks, floorLimits,
                                          soleElevatorMode).advanced
       ELSE \A i \in DOMAIN elevators \cap DOMAIN elevators' :
                \/ elevators'[i].moveDirection = elevators[i].moveDirection
                \/ isIdle(elevators'[i])]_vars

\* with sole mode off a cabin has just absorbed a pool pickup while it holds
\* drop-offs on both sides of the floor
C12_Witness ==
    /\ ~soleElevatorMode
    /\ \E k \in DOMAIN absorbed :
           LET e == elevators[absorbed[k].by]
           IN  /\ e.status = "stopped"
               /\ e.moveDirection = absorbed[k].task.direction
               /\ Below(e) # {} /\ Above(e) # {}

\* ------------------------------------------------------------------ canClearPickupTask

\* the cabins canClearPickupTask is asked about: every floor, direction and status,
\* with and without an assigned pickup
CabinInputs ==
    [id : {0}, currentFloor : Floors, moveDirection : Directions \cup {"null"},
     status : {"idle", "moving", "stopped"}, destinations : {<<>>},
     currentPickupTask : TaskValues \cup {NoTask}]

\* the limits it is asked under: none, and every bottom <= top
LimitInputs ==
    {NoLimits} \cup {l \in {Limits(b, t) : b \in Floors, t \in Floors} : l.bottom <= l.top}

\* one cabin, one pool task, limits and mode, all drawn from the inputs
InitCanClear ==
    /\ elevatorCount = 1
    /\ elevators \in {<<e>> : e \in CabinInputs}
    /\ pickupTasks \in {<<t>> : t \in TaskValues}
    /\ floorLimits \in LimitInputs
    /\ soleElevatorMode \in BOOLEAN
    /\ thrown = "none"
    /\ assigned = <<>>
    /\ absorbed = <<>>
    /\ returned = <<>>

NextCanClear == \E i \in DOMAIN elevators, k \in DOMAIN pickupTasks : CanClearPickupTask(i, k)

SpecCanClear == InitCanClear /\ [][NextCanClear]_vars

\* C13: canClearPickupTask returns what the decision table says: false for a task at
\* another floor; else true in sole mode; else false for a task whose direction is
\* not the cabin's; else, with an assigned pickup, true if the pickup is at the top
\* limit and the task is up or the pickup is at the bottom limit and the task is
\* down, false if the pickup's direction is not the task's, true otherwise; and true
\* with no assigned pickup.
C13_CanClearTable ==
    returned # <<>> =>
        LET e     == elevators[1]
            task  == pickupTasks[1]
            p     == e.currentPickupTask
            table ==
                CASE task.floor # e.currentFloor -> FALSE
                  [] task.floor = e.currentFloor /\ soleElevatorMode -> TRUE
                  [] task.floor = e.currentFloor /\ ~soleElevatorMode
                       /\ task.direction # e.moveDirection -> FALSE
                  [] task.floor = e.currentFloor /\ ~soleElevatorMode
                       /\ task.direction = e.moveDirection /\ p = NoTask -> TRUE
                  [] task.floor = e.currentFloor /\ ~soleElevatorMode
                       /\ task.direction = e.moveDirection /\ p # NoTask ->
                       \/ floorLimits.set /\ p.floor = floorLimits.top
                            /\ task.direction = "up"
                       \/ floorLimits.set /\ p.floor = floorLimits.bottom
                            /\ task.direction = "down"
                       \/ p.direction = task.direction
        IN  returned[1] = table

\* the call accepted an up task for a cabin heading up to a down pickup at the top
\* limit
C13_Witness ==
    /\ returned = <<TRUE>>
    /\ ~soleElevatorMode
    /\ floorLimits.set
    /\ elevators[1].currentPickupTask.floor = floorLimits.top
    /\ elevators[1].currentPickupTask.direction = "down"
    /\ elevators[1].currentFloor < floorLimits.top
    /\ pickupTasks[1].direction = "up"

\* task t is an up task and pickup p waits at the top limit, or t is a down task and
\* p waits at the bottom limit
TerminalCase(limits, p, t) ==
    /\ limits.set
    /\ \/ p.floor = limits.top /\ t.direction = "up"
       \/ p.floor = limits.bottom /\ t.direction = "down"

\* C14: with sole mode off, every pool task a step() removes is either assigned or
\* absorbed; the cabin that absorbed a task is not idle, stands at the task's floor
\* and has the task's direction, and if it carries an assigned pickup, the pickup
\* has the task's direction too or the terminal-floor case applies; and a moving
\* cabin that carries an assigned pickup through the step() is stopped by it only
\* for a drop-off or a task it absorbed.
C14_AbsorbsOnlyMatching ==
    [][(Step /\ ~soleElevatorMode) =>
         /\ Len(pickupTasks) - Len(pickupTasks') = Len(absorbed') + Len(assigned')
         /\ \A k \in DOMAIN absorbed' :
                LET a  == absorbed'[k]
                    e1 == elevators'[a.by]
                    p  == e1.currentPickupTask
                IN  /\ a.task \in Range(pickupTasks)
                    /\ ~isIdle(e1)
                    /\ e1.currentFloor = a.task.floor
                    /\ e1.moveDirection = a.task.direction
                    /\ p # NoTask =>
                          \/ p.direction = a.task.direction
                          \/ TerminalCase(floorLimits, p, a.task)
         /\ \A i \in Cabins :
                LET e  == elevators[i]
                    e1 == elevators'[i]
                IN  (/\ e.status = "moving"
                     /\ e.currentPickupTask # NoTask
                     /\ e1.currentPickupTask # NoTask
                     /\ e1.status = "stopped") =>
                        \/ Range(e1.destinations) # Range(e.destinations)
                        \/ \E k \in DOMAIN absorbed' : absorbed'[k].by = i]_vars

\* with sole mode off a cabin on its way to an assigned pickup has absorbed a task of
\* its direction and left one of the other direction, at the same floor, in the pool
C14_Witness ==
    /\ ~soleElevatorMode
    /\ \E k \in DOMAIN absorbed :
           LET a == absorbed[k]
               e == elevators[a.by]
           IN  /\ e.currentPickupTask # NoTask
               /\ e.currentPickupTask.floor # e.currentFloor
               /\ \E j \in DOMAIN pickupTasks :
                      /\ pickupTasks[j].floor = e.currentFloor
                      /\ pickupTasks[j].direction # a.task.direction

\* ------------------------------------------------------------------ terminal floors

\* new ElevatorManager(1, { top: MaxFloor, bottom: 0 })
InitTerminal ==
    /\ elevatorCount = 1
    /\ elevators = [i \in 1..elevatorCount |-> NewElevator(i - 1, 0)]
    /\ pickupTasks = <<>>
    /\ floorLimits = Limits(0, MaxFloor)
    /\ soleElevatorMode = FALSE
    /\ thrown = "none"
    /\ assigned = <<>>
    /\ absorbed = <<>>
    /\ returned = <<>>

\* SpecTerminal: one cabin in a building whose limits are the floors 0..MaxFloor,
\* serving hall calls and riders.
NextTerminal ==
    \/ \E f \in Floors, d \in Directions : Len(pickupTasks) < MaxPool /\ Pickup(f, d)
    \/ \E id \in ids, f \in Floors : SelectFloor(id, f)
    \/ Step

SpecTerminal == InitTerminal /\ [][NextTerminal]_vars

\* calls of step() until cabin i no longer carries pickup p leave it stopped at p's
\* floor, and at most n are needed
RECURSIVE reachesPickup(_, _, _, _, _, _, _)
reachesPickup(n, els, pool, limits, sole, i, p) ==
    IF els[i].currentPickupTask # p
    THEN els[i].currentFloor = p.floor /\ els[i].status = "stopped"
    ELSE IF n = 0 THEN FALSE
    ELSE LET r == step(els, pool, limits, sole)
         IN  reachesPickup(n - 1, r.elevators, r.pickupTasks, limits, sole, i, p)

\* a move, a stop and a restart per floor, and a further stop per pool task
ReachBound == (MaxFloor + 1) * (2 + MaxPool)

\* C15: with limits set, when a step() brings a cabin that travels up to an assigned
\* pickup at the top limit to a floor below it where the pool holds an up task, the
\* cabin absorbs an up task of that floor: it is stopped there, the task has left
\* the pool, the cabin keeps the pickup, whatever its declared direction, and
\* further calls of step() bring it to the pickup's floor; and likewise for down
\* tasks on the way down to a pickup at the bottom limit.
C15_TerminalRelaxation ==
    [][Step =>
         \A i \in Cabins : \A d \in Directions :
             LET e    == elevators[i]
                 e1   == elevators'[i]
                 p    == e.currentPickupTask
                 ahead == IF d = "up"
                          THEN p.floor = floorLimits.top
                                 /\ e1.currentFloor = e.currentFloor + 1
                                 /\ e1.currentFloor < p.floor
                          ELSE p.floor = floorLimits.bottom
                                 /\ e1.currentFloor = e.currentFloor - 1
                                 /\ e1.currentFloor > p.floor
                 t    == [floor |-> e1.currentFloor, direction |-> d]
             IN  (/\ floorLimits.set
                  /\ e.status = "moving"
                  /\ p # NoTask
                  /\ ahead
                  /\ t \in Range(pickupTasks)) =>
                     /\ \E k \in DOMAIN absorbed' :
                            absorbed'[k].by = i /\ absorbed'[k].task = t
                     /\ e1.status = "stopped"
                     /\ e1.currentPickupTask = p
                     /\ Cardinality({k \in DOMAIN pickupTasks' : pickupTasks'[k] = t})
                          < Cardinality({k \in DOMAIN pickupTasks : pickupTasks[k] = t})
                     /\ reachesPickup(ReachBound, elevators', pickupTasks', floorLimits,
                                      soleElevatorMode, i, p)]_vars

\* a cabin on its way up to a down pickup at the top limit has absorbed an up task
\* at a floor below it
C15_Witness ==
    /\ floorLimits.set
    /\ ~soleElevatorMode
    /\ \E k \in DOMAIN absorbed :
           LET a == absorbed[k]
               e == elevators[a.by]
           IN  /\ e.currentPickupTask # NoTask
               /\ e.currentPickupTask.floor = floorLimits.top
               /\ e.currentPickupTask.direction = "down"
               /\ a.task.direction = "up"
               /\ e.currentFloor < floorLimits.top
               /\ e.status = "stopped"

\* C16 (for a step() that directly follows a step() which assigned or absorbed a
\* task and did not raise): in sole mode a cabin that is not idle does not change
\* floor in a step() while the pool, as the previous step() left it, holds a task
\* at the cabin's floor.
C16_SoleModeStaysForTasks ==
    [][(/\ Step
        /\ soleElevatorMode
        /\ thrown = "none"
        /\ assigned # <<>> \/ absorbed # <<>>) =>
           \A i \in Cabins :
               (/\ ~isIdle(elevators[i])
                /\ \E k \in DOMAIN pickupTasks :
                       pickupTasks[k].floor = elevators[i].currentFloor) =>
                   elevators'[i].currentFloor = elevators[i].currentFloor]_vars

\* C17: a step() changes each cabin's floor by at most one; a cabin that is idle or
\* stopped when the step() starts keeps its floor, also when the step() assigns it a
\* pickup; and a moving cabin with an assigned pickup at another floor is one floor
\* closer to it after every step(), so that it is there k steps after the
\* assignment when it started k floors away and did not stop on the way.
C17_OneFloorPerTick ==
    [][Step =>
         \A i \in Cabins :
             LET e  == elevators[i]
                 e1 == elevators'[i]
                 p  == e.currentPickupTask
             IN  /\ Abs(e1.currentFloor - e.currentFloor) <= 1
                 /\ e.status \in {"idle", "stopped"} => e1.currentFloor = e.currentFloor
                 /\ (e.status = "moving" /\ p # NoTask /\ p.floor # e.currentFloor) =>
                        Abs(p.floor - e1.currentFloor) = Abs(p.floor - e.currentFloor) - 1]_vars

C19_SetElevatorReplaces ==
    [][\A id \in 0..(Len(elevators) - 1) : \A f \in Floors :
           SetElevator(id, f) =>
               /\ Len(elevators') = Len(elevators)
               /\ \A i \in Cabins : i # id + 1 => elevators'[i] = elevators[i]
               /\ elevators'[id + 1].id = id
               /\ elevators'[id + 1].currentFloor = f
               /\ elevators'[id + 1].status = "idle"
               /\ elevators'[id + 1].moveDirection = "null"
               /\ elevators'[id + 1].destinations = <<>>
               /\ elevators'[id + 1].currentPickupTask = NoTask
               /\ pickupTasks' =
                    IF elevators[id + 1].currentPickupTask = NoTask THEN pickupTasks
                    ELSE pickupTasks \o <<elevators[id + 1].currentPickupTask>>
               /\ thrown' = "none"
               /\ UNCHANGED <<elevatorCount, floorLimits, soleElevatorMode>>]_vars

\* the pool ends with a task it already held, which only a cabin's reset appends,
\* beside an idle cabin away from floor 0 and a cabin still carrying its pickup
C19_Witness ==
    /\ \E k \in DOMAIN pickupTasks :
           k < Len(pickupTasks) /\ pickupTasks[k] = pickupTasks[Len(pickupTasks)]
    /\ \E i, j \in Cabins :
           /\ elevators[i] = NewElevator(i - 1, elevators[i].currentFloor)
           /\ elevators[i].currentFloor > 0
           /\ elevators[j].currentPickupTask # NoTask

\* ------------------------------------------------------------------ calls with any id

\* SpecCalls: the fleet grows to at most CallsFleet cabins, and pickup() is only
\* called while the pool holds fewer than CallsPool tasks.
CallsFleet == 2
CallsPool == 1

\* the cabin ids the calls pass: the indices of a fleet of CallsFleet cabins, one
\* below and one above
IdArgs == (0 - 1)..CallsFleet

\* new ElevatorManager(1)
InitCalls ==
    /\ elevatorCount = 1
    /\ elevators = [i \in 1..elevatorCount |-> NewElevator(i - 1, 0)]
    /\ pickupTasks = <<>>
    /\ floorLimits = NoLimits
    /\ soleElevatorMode = FALSE
    /\ thrown = "none"
    /\ assigned = <<>>
    /\ absorbed = <<>>
    /\ returned = <<>>

\* SpecCalls: hall calls, steps, and setElevator() with any id, also one that is not
\* the index of a cabin.
NextCalls ==
    \/ \E f \in Floors, d \in Directions : Len(pickupTasks) < CallsPool /\ Pickup(f, d)
    \/ Step
    \/ \E id \in IdArgs, f \in Floors :
          /\ Len(elevators) < CallsFleet \/ id < Len(elevators)
          /\ SetElevator(id, f)

SpecCalls == InitCalls /\ [][NextCalls]_vars

\* C20: setElevator(id, floor) with an id that is not the index of a cabin raises the
\* bad-cabin-id error and leaves the fleet and the pool as they were.
C20_SetElevatorRejectsBadId ==
    [][\A id \in IdArgs : \A f \in Floors :
           (SetElevator(id, f) /\ (id < 0 \/ id >= Len(elevators))) =>
               /\ thrown' = "id"
               /\ elevators' = elevators
               /\ pickupTasks' = pickupTasks]_vars

\* ------------------------------------------------------------------ rejected calls

\* SpecRejects: pickup() is only called while the pool holds fewer than RejectsPool
\* tasks.
RejectsPool == 1

\* the floors the calls pass: the floors of the building and one below
FloorArgs == (0 - 1)..MaxFloor

\* new ElevatorManager(FleetSize, {top: MaxFloor - 1, bottom: 0})
InitRejects ==
    /\ elevatorCount = FleetSize
    /\ elevators = [i \in 1..elevatorCount |-> NewElevator(i - 1, 0)]
    /\ pickupTasks = <<>>
    /\ floorLimits = Limits(0, MaxFloor - 1)
    /\ soleElevatorMode = FALSE
    /\ thrown = "none"
    /\ assigned = <<>>
    /\ absorbed = <<>>
    /\ returned = <<>>

\* SpecRejects: hall calls and riders' calls with any floor and any cabin id, also the
\* ones the dispatcher rejects, and steps.  A rider calls while the cabin holds fewer
\* than RidersDest drop-offs.
NextRejects ==
    \/ \E f \in FloorArgs, d \in Directions : Len(pickupTasks) < RejectsPool /\ Pickup(f, d)
    \/ \E id \in IdArgs, f \in FloorArgs :
          /\ \A i \in DOMAIN elevators :
                 elevators[i].id = id => Len(elevators[i].destinations) < RidersDest
          /\ SelectFloor(id, f)
    \/ Step

SpecRejects == InitRejects /\ [][NextRejects]_vars

\* floor f is outside the limits l, which are set
OutsideLimits(l, f) == l.set /\ (f > l.top \/ f < l.bottom)

\* no cabin of the fleet has id
UnknownId(id) == \A i \in DOMAIN elevators : elevators[i].id # id

\* the state of the dispatcher is what it was before the call
NothingChanged ==
    /\ elevators' = elevators
    /\ pickupTasks' = pickupTasks
    /\ elevatorCount' = elevatorCount
    /\ floorLimits' = floorLimits
    /\ soleElevatorMode' = soleElevatorMode

\* C21: pickup() with a floor outside the limits, selectFloor() with a floor outside
\* the limits and selectFloor() with an unknown cabin id each throw at the call and
\* leave the pool, every cabin and the configuration as they were, so that the calls
\* that follow start from the state the rejected call found.
C21_RejectedCallsChangeNothing ==
    [][/\ \A f \in FloorArgs, d \in Directions :
              (OutsideLimits(floorLimits, f) /\ Pickup(f, d)) =>
                  (thrown' = "limits" /\ NothingChanged)
       /\ \A id \in IdArgs, f \in FloorArgs :
              (OutsideLimits(floorLimits, f) /\ SelectFloor(id, f)) =>
                  (thrown' = "limits" /\ NothingChanged)
       /\ \A id \in IdArgs, f \in FloorArgs :
              (~OutsideLimits(floorLimits, f) /\ UnknownId(id) /\ SelectFloor(id, f)) =>
                  (thrown' = "id" /\ NothingChanged)]_vars

\* C21 witness: a call was rejected while a cabin was at work and carried a pickup
C21_Witness ==
    /\ thrown \in {"limits", "id"}
    /\ \E i \in Cabins : elevators[i].status = "moving"
                         /\ elevators[i].currentPickupTask # NoTask
    /\ \E i \in Cabins : Len(elevators[i].destinations) > 0

\* ------------------------------------------------------------------ hall calls

\* C22: pickup(floor, direction) with a floor within the limits pushes the task at
\* the tail of the pool if and only if the pool holds no task of that floor and
\* direction, whatever the cabins carry, and changes nothing else; a second call
\* right after it changes nothing.
C22_PickupAppendsOnce ==
    [][\A f \in Floors, d \in Directions :
           (~OutsideLimits(floorLimits, f) /\ Pickup(f, d)) =>
               LET t == [floor |-> f, direction |-> d]
               IN  /\ thrown' = "none"
                   /\ IF t \in Range(pickupTasks)
                      THEN pickupTasks' = pickupTasks
                      ELSE pickupTasks' = pickupTasks \o <<t>>
                   /\ elevators' = elevators
                   /\ elevatorCount' = elevatorCount
                   /\ floorLimits' = floorLimits
                   /\ soleElevatorMode' = soleElevatorMode
                   /\ pickup(pickupTasks', f, d) = pickupTasks']_vars

\* C22 witness: a hall call was pushed at the tail of the pool, behind another task,
\* while the cabin carries the same task
C22_Witness ==
    /\ thrown = "none"
    /\ Len(pickupTasks) = 2
    /\ \E i \in Cabins : elevators[i].currentPickupTask = pickupTasks[2]

\* ------------------------------------------------------------------ fleet resizing

\* SpecResize: the fleet is resized to at most ResizeFleet cabins, and pickup() is
\* only called while the pool holds fewer than ResizePool tasks.
ResizeFleet == 2
ResizePool == 1

ResizeArgs == 0..ResizeFleet

\* new ElevatorManager(ResizeFleet)
InitResize ==
    /\ elevatorCount = ResizeFleet
    /\ elevators = [i \in 1..elevatorCount |-> NewElevator(i - 1, 0)]
    /\ pickupTasks = <<>>
    /\ floorLimits = NoLimits
    /\ soleElevatorMode = FALSE
    /\ thrown = "none"
    /\ assigned = <<>>
    /\ absorbed = <<>>
    /\ returned = <<>>

\* SpecResize: hall calls, steps, and setElevatorCount().
NextResize ==
    \/ \E f \in Floors, d \in Directions : Len(pickupTasks) < ResizePool /\ Pickup(f, d)
    \/ Step
    \/ \E n \in ResizeArgs : SetElevatorCount(n)

SpecResize == InitResize /\ [][NextResize]_vars

\* C23: setElevatorCount(n) leaves a fleet of n cabins.  The cabins below index n
\* that existed stay as they were, the cabins beyond the old fleet are new: idle at
\* floor 0 with the index as id.  The pool stays as it was, so the pickup of a cabin
\* cut off is held nowhere afterwards: each task is held as often as before, less
\* the cabins cut off that carried it.
C23_SetElevatorCountResizes ==
    [][\A n \in ResizeArgs :
           SetElevatorCount(n) =>
               LET len == Len(elevators)
               IN  /\ thrown' = "none"
                   /\ Len(elevators') = n
                   /\ \A i \in 1..n :
                          IF i <= len
                          THEN elevators'[i] = elevators[i]
                          ELSE /\ elevators'[i].id = i - 1
                               /\ elevators'[i].currentFloor = 0
                               /\ elevators'[i].status = "idle"
                               /\ elevators'[i].moveDirection = "null"
                               /\ elevators'[i].destinations = <<>>
                               /\ elevators'[i].currentPickupTask = NoTask
                   /\ pickupTasks' = pickupTasks
                   /\ \A t \in TaskValues :
                          Copies(pickupTasks', elevators', t) =
                              Copies(pickupTasks, elevators, t)
                              - Cardinality({i \in (n + 1)..len :
                                                elevators[i].currentPickupTask = t})
                   /\ UNCHANGED <<floorLimits, soleElevatorMode>>]_vars

\* C23 witness: the fleet, built with ResizeFleet cabins, was cut to one cabin, which
\* is on its way to a pickup while another task waits in the pool
C23_Witness ==
    /\ elevatorCount = 1
    /\ Len(elevators) = 1
    /\ elevators[1].status = "moving"
    /\ elevators[1].currentFloor > 0
    /\ elevators[1].currentPickupTask # NoTask
    /\ pickupTasks # <<>>

\* ------------------------------------------------------------------ cabin ids

\* C24: after every call the ids of the cabins are dense, the id of each cabin is its
\* index in the fleet, and the recorded elevatorCount is the length of the fleet.
C24_IdsFollowFleet ==
    /\ elevatorCount = Len(elevators)
    /\ \A i \in Cabins : elevators[i].id = i - 1

\* ------------------------------------------------------------------ assigned pickups

\* cabin i absorbed a pool task in the step whose absorption log is log
AbsorbedBy(log, i) == \E k \in DOMAIN log : log[k].by = i

\* C25: a pickup a cabin carries is served by that cabin only.  In every step() a
\* cabin that carried a pickup carries it still, or has cleared it and stands at its
\* floor.  Any other cabin that is stopped at that floor after the step was not
\* advanced, or stopped for a reason of its own: it absorbed a pool task, a drop-off
\* of its own was due there, or it cleared the pickup it carried itself.
C25_AssignedServedByOwnCabin ==
    [][IF Step
       THEN \A j \in Cabins :
                elevators[j].currentPickupTask # NoTask =>
                    LET p == elevators[j].currentPickupTask
                    IN  /\ \/ elevators'[j].currentPickupTask = p
                           \/ /\ elevators'[j].currentPickupTask = NoTask
                              /\ elevators'[j].currentFloor = p.floor
                        /\ \A i \in Cabins \ {j} :
                               (/\ elevators'[i].status = "stopped"
                                /\ elevators'[i].currentFloor = p.floor) =>
                                   \/ elevators'[i] = elevators[i]
                                   \/ AbsorbedBy(absorbed', i)
                                   \/ /\ p.floor \in Range(elevators[i].destinations)
                                      /\ p.floor \notin Range(elevators'[i].destinations)
                                   \/ /\ elevators[i].currentPickupTask # NoTask
                                      /\ elevators'[i].currentPickupTask = NoTask
       ELSE TRUE]_vars

\* C25 witness: cabin i, earlier in the fleet than cabin j, is about to pass the
\* floor of the pickup cabin j carries, heading the way the pickup declares: step()
\* moves it there and leaves it moving, and cabin j arrives and clears its pickup
C25_Witness ==
    \E i, j \in Cabins :
        /\ i < j
        /\ elevators[j].currentPickupTask # NoTask
        /\ elevators[i].status = "moving"
        /\ elevators[i].moveDirection = elevators[j].currentPickupTask.direction
        /\ elevators[i].currentFloor # elevators[j].currentPickupTask.floor
        /\ LET r == step(elevators, pickupTasks, floorLimits, soleElevatorMode)
           IN  /\ ~r.thrown
               /\ r.elevators[i].currentFloor = elevators[j].currentPickupTask.floor
               /\ r.elevators[i].status = "moving"
               /\ r.elevators[j].currentPickupTask = NoTask

\* ------------------------------------------------------------------ starvation

\* SpecHallCalls: pickup() is only called while the pool holds fewer than HallPool
\* tasks.
HallPool == 1

\* SpecHallCalls: one cabin, hall calls and steps; step() is called again and again.
NextHallCalls ==
    \/ \E f \in Floors, d \in Directions : Len(pickupTasks) < HallPool /\ Pickup(f, d)
    \/ Step

SpecHallCalls == InitCalls /\ [][NextHallCalls]_vars /\ WF_vars(Step)

\* C26: once a task is assigned to a cabin, the cabin eventually stands at the task's
\* floor, whatever hall calls arrive between the steps.
C26_AssignedPickupReached ==
    \A t \in TaskValues :
        (Len(elevators) = 1 /\ elevators[1].currentPickupTask = t)
            ~> (Len(elevators) = 1 /\ elevators[1].currentFloor = t.floor)

\* ------------------------------------------------------------------ progress

\* the floors where something waits: pool tasks, assigned pickups and drop-offs
TargetFloors(els, pool) ==
    {pool[k].floor : k \in DOMAIN pool}
    \cup {els[i].currentPickupTask.floor :
             i \in {j \in DOMAIN els : els[j].currentPickupTask # NoTask}}
    \cup UNION {Range(els[i].destinations) : i \in DOMAIN els}

\* a step() that leads from the cabins els to the cabins els1 brought some cabin
\* closer to one of the floors in targets, or left it stopped at one
ProgressIn(els, els1, targets) ==
    \E i \in DOMAIN els : \E g \in targets :
        \/ Abs(els1[i].currentFloor - g) < Abs(els[i].currentFloor - g)
        \/ els1[i].status = "stopped" /\ els1[i].currentFloor = g

\* one of the next n calls of step() makes progress
RECURSIVE progressWithin(_, _, _, _, _)
progressWithin(n, els, pool, limits, sole) ==
    IF n = 0 THEN FALSE
    ELSE \E r \in {step(els, pool, limits, sole)} :
             \/ ProgressIn(els, r.elevators, TargetFloors(els, pool))
             \/ progressWithin(n - 1, r.elevators, r.pickupTasks, limits, sole)

\* the floor span of the building
FloorSpan == MaxFloor

\* C27: with at least one cabin, whenever a pool pickup, an assigned pickup or a
\* drop-off exists, one of the next FloorSpan + 2 calls of step() brings some cabin
\* closer to the floor of such a pickup or drop-off, or leaves it stopped there.
C27_BoundedProgress ==
    (Len(elevators) >= 1 /\ TargetFloors(elevators, pickupTasks) # {}) =>
        progressWithin(FloorSpan + 2, elevators, pickupTasks, floorLimits, soleElevatorMode)

\* C27 witness: something waits and the next two calls of step() bring no cabin
\* closer to it (the first raises, the second moves the cabin away), the third does
C27_Witness ==
    /\ Len(elevators) >= 1
    /\ TargetFloors(elevators, pickupTasks) # {}
    /\ ~progressWithin(2, elevators, pickupTasks, floorLimits, soleElevatorMode)
    /\ progressWithin(3, elevators, pickupTasks, floorLimits, soleElevatorMode)

\* ------------------------------------------------------------------ snapshots

\* SpecStatus: a fleet of FleetSize cabins that serve hall calls and riders, and
\* whose status is read.
NextStatus ==
    \/ \E f \in Floors, d \in Directions : Len(pickupTasks) < RidersPool /\ Pickup(f, d)
    \/ \E i \in DOMAIN elevators, f \in Floors :
          Len(elevators[i].destinations) < RidersDest /\ SelectFloor(elevators[i].id, f)
    \/ Step
    \/ Status

SpecStatus == InitFleet /\ [][NextStatus]_vars

\* C28: status() returns one summary per cabin, in id order, with the cabin's id,
\* floor, destination, work status and pending drop-off floors; the destination is
\* the cabin's current destination, and it is the cabin's floor whenever the cabin is
\* idle or has nothing to go to.
C28_StatusSummaries ==
    returned # <<>> =>
        /\ Len(returned[1]) = Len(elevators)
        /\ \A i \in Cabins :
               /\ DOMAIN returned[1][i] = {"id", "floor", "destination", "status", "dropOffs"}
               /\ returned[1][i].id = i - 1
               /\ returned[1][i].id = elevators[i].id
               /\ returned[1][i].floor = elevators[i].currentFloor
               /\ returned[1][i].status = elevators[i].status
               /\ returned[1][i].destination = currentDestination(elevators[i])
               /\ (isIdle(elevators[i]) \/ ~hasDestinations(elevators[i])) =>
                      returned[1][i].destination = returned[1][i].floor
               /\ returned[1][i].dropOffs = Range(elevators[i].destinations)

\* ------------------------------------------------------------------ order of drop-offs

\* how many calls of step() the two runs are compared over
StepsCompared == MaxFloor + 2

\* status() and tasks() agree after each of the next n calls of step() in the run
\* from the fleet els1 and pool pool1 and in the run from els2 and pool2
RECURSIVE sameSnapshots(_, _, _, _, _, _, _)
sameSnapshots(n, els1, pool1, els2, pool2, limits, sole) ==
    IF n = 0 THEN TRUE
    ELSE \E r1 \in {step(els1, pool1, limits, sole)} :
         \E r2 \in {step(els2, pool2, limits, sole)} :
             /\ status(r1.elevators) = status(r2.elevators)
             /\ tasks(r1.elevators, r1.pickupTasks) = tasks(r2.elevators, r2.pickupTasks)
             /\ sameSnapshots(n - 1, r1.elevators, r1.pickupTasks,
                              r2.elevators, r2.pickupTasks, limits, sole)

\* C29: the order in which two drop-offs are selected cannot be observed: from any
\* state, for any cabin c and floors a and b within the limits, selectFloor(c, a);
\* selectFloor(c, b) and selectFloor(c, b); selectFloor(c, a) give the same status()
\* and tasks() after every following step().
C29_DropOffOrderUnobservable ==
    \A c \in Cabins : \A a, b \in Floors :
        (isWithinLimits(floorLimits, a) /\ isWithinLimits(floorLimits, b)) =>
            sameSnapshots(StepsCompared,
                          selectFloor(selectFloor(elevators, c, a), c, b), pickupTasks,
                          selectFloor(selectFloor(elevators, c, b), c, a), pickupTasks,
                          floorLimits, soleElevatorMode)

\* ------------------------------------------------------------------ order of assignment

\* s can be had from t by leaving entries out
RECURSIVE IsSubSeq(_, _)
IsSubSeq(s, t) ==
    IF s = <<>> THEN TRUE
    ELSE IF t = <<>> THEN FALSE
    ELSE IF Head(s) = Head(t) THEN IsSubSeq(Tail(s), Tail(t))
    ELSE IsSubSeq(s, Tail(t))

\* how many entries of the log carry task t
Logged(log, t) == Cardinality({k \in DOMAIN log : log[k].task = t})

\* C30: after every step() that completes the pool is empty or no cabin is idle.  The
\* tasks assigned in the step, in the order of their assignment, followed by the pool
\* the step leaves, are the pool after absorption: the pool before the step without
\* the tasks absorbed, in its order.
C30_AssignmentIsFifo ==
    [][IF Step /\ thrown' = "none"
       THEN /\ pickupTasks' = <<>> \/ \A i \in DOMAIN elevators' : ~isIdle(elevators'[i])
            /\ LET post == [k \in DOMAIN assigned' |-> assigned'[k].task] \o pickupTasks'
               IN  /\ IsSubSeq(post, pickupTasks)
                   /\ Len(post) + Len(absorbed') = Len(pickupTasks)
                   /\ \A t \in TaskValues :
                          Cardinality({k \in DOMAIN post : post[k] = t}) + Logged(absorbed', t)
                              = Cardinality({k \in DOMAIN pickupTasks : pickupTasks[k] = t})
       ELSE TRUE]_vars

\* C30 witness: a step() assigned two tasks and left tasks in the pool
C30_Witness ==
    /\ thrown = "none"
    /\ Len(assigned) = 2
    /\ pickupTasks # <<>>

\* ------------------------------------------------------------------ order of absorption

\* s without its first entry equal to t
RemoveFirst(s, t) ==
    LET j == FindIndex([k \in DOMAIN s |-> s[k] = t])
    IN  IF j = 0 THEN s ELSE RemoveAt(s, j)

\* the pool without the tasks of the entries of log made by cabins before cabin i
RECURSIVE PoolAtTurn(_, _, _)
PoolAtTurn(pool, log, i) ==
    IF log = <<>> \/ Head(log).by >= i THEN pool
    ELSE PoolAtTurn(RemoveFirst(pool, Head(log).task), Tail(log), i)

\* cabin i was given a task in the step whose assignment log is log
AssignedTo(log, i) == \E k \in DOMAIN log : log[k].to = i

DropOffInputs ==
    {s \in UNION {[1..n -> Floors] : n \in 0..(MaxFloor + 1)} :
        \A j, k \in DOMAIN s : j # k => s[j] # s[k]}

\* the cabins currentDestination is read of: every floor, direction and status, with
\* or without a pickup, with any drop-offs
DestinationInputs ==
    [id : {0}, currentFloor : Floors, moveDirection : Directions \cup {"null"},
     status : {"idle", "moving", "stopped"}, destinations : DropOffInputs,
     currentPickupTask : TaskValues \cup {NoTask}]

\* one cabin drawn from the inputs
InitDestination ==
    /\ elevatorCount = 1
    /\ elevators \in {<<e>> : e \in DestinationInputs}
    /\ pickupTasks = <<>>
    /\ floorLimits = NoLimits
    /\ soleElevatorMode = FALSE
    /\ thrown = "none"
    /\ assigned = <<>>
    /\ absorbed = <<>>
    /\ returned = <<>>

NextDestination == \E i \in DOMAIN elevators : CurrentDestination(i)

SpecDestination == InitDestination /\ [][NextDestination]_vars

\* C32: the current destination is the floor of the assigned pickup if there is one,
\* drop-offs or not; otherwise the highest drop-off when the direction is up, the
\* lowest when it is down, one of the drop-offs when there is no direction; and the
\* cabin's floor when there is neither pickup nor drop-off.
C32_CurrentDestinationRule ==
    returned # <<>> =>
        LET e == elevators[1]
            d == returned[1]
            S == Range(e.destinations)
        IN  /\ e.currentPickupTask # NoTask => d = e.currentPickupTask.floor
            /\ (e.currentPickupTask = NoTask /\ S # {} /\ e.moveDirection = "up") =>
                   (d \in S /\ \A y \in S : y <= d)
            /\ (e.currentPickupTask = NoTask /\ S # {} /\ e.moveDirection = "down") =>
                   (d \in S /\ \A y \in S : y >= d)
            /\ (e.currentPickupTask = NoTask /\ S # {} /\ e.moveDirection = "null") =>
                   d \in S
            /\ (e.currentPickupTask = NoTask /\ S = {}) => d = e.currentFloor

\* C32 witness: the destination read is the floor of the pickup although the cabin
\* heads up and holds a drop-off above the pickup
C32_Witness ==
    /\ returned # <<>>
    /\ elevators[1].currentPickupTask # NoTask
    /\ elevators[1].moveDirection = "up"
    /\ \E y \in Range(elevators[1].destinations) : y > elevators[1].currentPickupTask.floor
    /\ returned[1] = elevators[1].currentPickupTask.floor

\* ------------------------------------------------------------------ direction flips

\* C33: in a step, a cabin without an assigned pickup heading up neither moves down
\* nor turns down while a drop-off strictly above its floor remains, whatever lies
\* below it (symmetrically for down); and when a cabin that holds no assigned pickup
\* before and after the step has turned, no drop-off was ahead of it and one was behind.
C33_DirectionKept ==
    [][IF Step
       THEN \A i \in DOMAIN elevators :
              LET e == elevators[i]
                  f == elevators'[i]
                  above == \E y \in Range(e.destinations) : y > e.currentFloor
                  below == \E y \in Range(e.destinations) : y < e.currentFloor
              IN  /\ (e.currentPickupTask = NoTask /\ e.moveDirection = "up" /\ above) =>
                         (f.currentFloor >= e.currentFloor /\ f.moveDirection # "down")
                  /\ (e.currentPickupTask = NoTask /\ e.moveDirection = "down" /\ below) =>
                         (f.currentFloor <= e.currentFloor /\ f.moveDirection # "up")
                  /\ (e.currentPickupTask = NoTask /\ f.currentPickupTask = NoTask
                          /\ e.moveDirection = "up" /\ f.moveDirection = "down") =>
                         (~above /\ below)
                  /\ (e.currentPickupTask = NoTask /\ f.currentPickupTask = NoTask
                          /\ e.moveDirection = "down" /\ f.moveDirection = "up") =>
                         (~below /\ above)
       ELSE TRUE]_vars

\* C33 witness: a cabin heading up has stopped at a drop-off and still heads up with a
\* drop-off above it and another one below it
C33_Witness ==
    \E i \in DOMAIN elevators :
        /\ thrown = "none"
        /\ elevators[i].status = "stopped"
        /\ elevators[i].currentPickupTask = NoTask
        /\ elevators[i].moveDirection = "up"
        /\ \E y \in Range(elevators[i].destinations) : y > elevators[i].currentFloor
        /\ \E y \in Range(elevators[i].destinations) : y < elevators[i].currentFloor

\* ------------------------------------------------------------------ drop-off at the floor of an idle cabin

\* C34: a step removes the drop-off an idle cabin holds for its own floor and leaves
\* the cabin stopped at that floor without direction; the step after it, whatever was
\* called in between, keeps the floor and leaves the cabin idle when no drop-off
\* remains (an idle cabin may then be dispatched by the same step), otherwise moving
\* (or stopped again after taking riders in) with its direction toward the
\* destination it had when that step began.
C34_OwnFloorDropOff ==
    [][IF Step
       THEN \A i \in DOMAIN elevators :
              LET e == elevators[i]
                  f == elevators'[i]
                  d == currentDestination(e)
              IN  /\ (e.status = "idle" /\ e.currentFloor \in Range(e.destinations)) =>
                         /\ f.status = "stopped"
                         /\ f.currentFloor = e.currentFloor
                         /\ f.moveDirection = "null"
                         /\ f.destinations = SetDelete(e.destinations, e.currentFloor)
                  /\ (e.status = "stopped" /\ e.moveDirection = "null"
                          /\ e.currentPickupTask = NoTask) =>
                         /\ f.currentFloor = e.currentFloor
                         /\ e.destinations = <<>> =>
                                \/ f.status = "idle" /\ f.moveDirection = "null"
                                \/ AssignedTo(assigned', i)
                         /\ e.destinations # <<>> =>
                                /\ \/ f.status = "moving"
                                   \/ f.status = "stopped" /\ AbsorbedBy(absorbed', i)
                                /\ f.moveDirection \in Directions
                                /\ d > e.currentFloor => f.moveDirection = "up"
                                /\ d < e.currentFloor => f.moveDirection = "down"
       ELSE TRUE]_vars

\* ------------------------------------------------------------------ selected floors are not passed

\* C35: a moving cabin that a step brings to a floor among its drop-offs ends the
\* step stopped there with that drop-off removed, whatever its destination and its
\* assigned pickup; and a cabin loses a drop-off only in a step that ends with the
\* cabin at that floor, or when setElevator replaces the cabin.
C35_StopsAtSelectedFloors ==
    [][IF Step
       THEN \A i \in DOMAIN elevators :
              LET e == elevators[i]
                  f == elevators'[i]
              IN  /\ (e.status = "moving" /\ f.currentFloor # e.currentFloor
                          /\ f.currentFloor \in Range(e.destinations)) =>
                         (f.status = "stopped" /\ f.currentFloor \notin Range(f.destinations))
                  /\ \A y \in Range(e.destinations) :
                         y \notin Range(f.destinations) => f.currentFloor = y
       ELSE \/ \A i \in DOMAIN elevators \cap DOMAIN elevators' :
                  Range(elevators[i].destinations) \subseteq Range(elevators'[i].destinations)
            \/ \E id \in ids, floor \in Floors : SetElevator(id, floor)]_vars

\* C35 witness: a cabin on its way up to an assigned pickup for riders going down
\* has stopped at a floor selected on the way, short of the pickup's floor
C35_Witness ==
    \E i \in DOMAIN elevators :
        /\ thrown = "none"
        /\ ~soleElevatorMode
        /\ elevators[i].status = "stopped"
        /\ elevators[i].moveDirection = "up"
        /\ elevators[i].currentPickupTask # NoTask
        /\ elevators[i].currentPickupTask.direction = "down"
        /\ elevators[i].currentPickupTask.floor > elevators[i].currentFloor
        /\ elevators[i].currentFloor > 0
        /\ elevators[i].destinations = <<>>

\* ------------------------------------------------------------------ floors stay within fixed limits

\* C36: with the limits given at construction and never changed, and no cabin
\* replaced, no step moves a cabin to a floor below the bottom or above the top.
C36_StepStaysWithinLimits ==
    [][IF Step /\ floorLimits.set
       THEN \A i \in DOMAIN elevators :
              elevators'[i].currentFloor # elevators[i].currentFloor =>
                  isWithinLimits(floorLimits, elevators'[i].currentFloor)
       ELSE TRUE]_vars

\* ------------------------------------------------------------------ movement is toward the destination

\* the number of floors between two floors
Distance(a, b) == IF a > b THEN a - b ELSE b - a

\* C37: a cabin that changes floor in a step ends it exactly one floor nearer to
\* the destination it had when the step began; in particular a cabin whose
\* destination is its own floor keeps its floor.
C37_MovesTowardDestination ==
    [][IF Step
       THEN \A i \in DOMAIN elevators :
              LET d == currentDestination(elevators[i])
              IN  elevators'[i].currentFloor # elevators[i].currentFloor =>
                      Distance(elevators'[i].currentFloor, d)
                          = Distance(elevators[i].currentFloor, d) - 1
       ELSE TRUE]_vars

\* ------------------------------------------------------------------ direction of moving cabins

\* C38: at the end of a step every moving cabin has a direction, up or down, and
\* that direction points to its current destination whenever the destination is
\* another floor.
C38_MovingFollowsDirection ==
    [][IF Step
       THEN \A i \in DOMAIN elevators' :
              LET f == elevators'[i]
                  d == currentDestination(f)
              IN  f.status = "moving" =>
                      /\ f.moveDirection \in Directions
                      /\ d > f.currentFloor => f.moveDirection = "up"
                      /\ d < f.currentFloor => f.moveDirection = "down"
       ELSE TRUE]_vars

\* ------------------------------------------------------------------ step() loses no pickup

\* the cabins whose assigned pickup t is gone after the step
ServedBy(els, after, t) ==
    {i \in DOMAIN els : els[i].currentPickupTask = t /\ after[i].currentPickupTask # t}

\* C39: a task listed by tasks() before a step and not after it was taken from the
\* pool by, or was the assigned pickup of, a cabin that ends the step stopped at the
\* task's floor; the tasks a step hands from the pool to a cabin are still listed
\* after it; and every copy of a task that is no longer listed went one of these
\* two ways.
C39_StepLosesNoPickup ==
    [][IF Step
       THEN /\ \A t \in Range(tasks(elevators, pickupTasks)) :
                   t \notin Range(tasks(elevators', pickupTasks')) =>
                       \E i \in DOMAIN elevators' :
                           /\ elevators'[i].status = "stopped"
                           /\ elevators'[i].currentFloor = t.floor
                           /\ \/ \E k \in DOMAIN absorbed' :
                                     absorbed'[k].task = t /\ absorbed'[k].by = i
                              \/ elevators[i].currentPickupTask = t
            /\ \A k \in DOMAIN assigned' :
                   assigned'[k].task \in Range(tasks(elevators', pickupTasks'))
            /\ \A t \in TaskValues :
                   /\ Copies(pickupTasks, elevators, t) - Copies(pickupTasks', elevators', t)
                          = Logged(absorbed', t)
                            + Cardinality(ServedBy(elevators, elevators', t))
                   /\ \A i \in ServedBy(elevators, elevators', t) :
                          /\ elevators'[i].status = "stopped"
                          /\ elevators'[i].currentFloor = t.floor
                   /\ \A k \in DOMAIN absorbed' :
                          /\ elevators'[absorbed'[k].by].status = "stopped"
                          /\ elevators'[absorbed'[k].by].currentFloor = absorbed'[k].task.floor
       ELSE TRUE]_vars

\* C39 witness: one step has taken a task from the pool at a cabin's floor and has
\* handed another one to an idle cabin, which carries it
C39_Witness ==
    /\ thrown = "none"
    /\ absorbed # <<>>
    /\ assigned # <<>>
    /\ \E k \in DOMAIN assigned :
           elevators[assigned[k].to].currentPickupTask = assigned[k].task
    /\ \E k \in DOMAIN absorbed :
           absorbed[k].task \notin Range(tasks(elevators, pickupTasks))

====
